---- MODULE Spec2Model ----
(***************************************************************************)
(* Collaborative canvas: the room-scoped synchronization engine.           *)
(*                                                                         *)
(* Server side (src/server/server.ts, src/server/rooms.ts): the room       *)
(* table of the RoomManager, one DrawingState per room (operations, users, *)
(* colorIdx) and, per socket, the closure variables of the connection      *)
(* handler (currentRoom, currentUserId) and the socket.io rooms it joined. *)
(* Client side (src/client/main.ts, the CanvasManager part of server.ts,   *)
(* src/unnamed/part_000): per browser tab the local operation history of   *)
(* the CanvasManager, the redo stack, the current user and the stroke in   *)
(* progress.  Transport: per connection one FIFO queue of the messages on   *)
(* their way to the client.  A request of a client and the server's        *)
(* handler for it are one step: the server runs its handlers one at a time *)
(* in the order the requests arrive, a client decides what to send from    *)
(* what it has received so far, and every run in which a request waits on  *)
(* its way to the server is the run in which the client sends it later and *)
(* the deliveries to that client wait instead.                             *)
(*                                                                         *)
(* A socket id is a connection number; an operation id                     *)
(* `${userId}-${Date.now()}-${Math.random()}` is the pair of the user id   *)
(* and the value of a global clock that ticks once per finished stroke.    *)
(* The drawing tool stays at its default (brush, #000000, width 3).        *)
(***************************************************************************)
EXTENDS Integers, Sequences, FiniteSets, TLC

\* ---------------------------------------------------------------- bounds
NumConns == 2      \* connections (browser tabs) that ever exist
MaxOps == 2        \* strokes ever finished
MaxDown == 2       \* capacity of a server -> client queue
MaxLog == 2        \* longest operation log the engine is driven to

Conns == 1..NumConns
RoomIds == {"r1", "r2"}
UserNames == {"ann"}

\* ------------------------------------------------------------- constants
NoRoom == "null"           \* currentRoom: string | null
NoId == 0                  \* currentUserId: string | null
NoUser == [ id |-> 0, name |-> "", color |-> "", cursor |-> << >> ]  \* currentUser: User | null
defaultWidth == 3
defaultColor == "#000000"
tolerance == 2
userColors ==
    << "#FF6B6B", "#4ECDC4", "#45B7D1", "#FFA07A",
       "#98D8C8", "#F7DC6F", "#BB8FCE", "#85C1E2" >>

VARIABLES
    rooms,      \* RoomManager.rooms: roomId -> DrawingState
    sock,       \* per connection: currentRoom, currentUserId, joined socket.io rooms
    down,       \* per connection: messages server -> client, in order
    client,     \* per connection: the CollaborativeCanvas of that tab
    clock       \* Date.now(): ticks once per finished stroke

vars == << rooms, sock, down, client, clock >>

\* ------------------------------------------------------- sequence helpers
Last(s) == s[Len(s)]
Front(s) == SubSeq(s, 1, Len(s) - 1)
Range(s) == { s[i] : i \in 1..Len(s) }

\* ------------------------------------------------ DrawingState (server)
NewDrawingState == [ operations |-> << >>, users |-> << >>, colorIdx |-> 0 ]

\* Map.set on the insertion-ordered users map: replace in place or append.
MapSet(users, user) ==
    IF \E i \in 1..Len(users) : users[i].id = user.id
    THEN [ i \in 1..Len(users) |->
             IF users[i].id = user.id THEN user ELSE users[i] ]
    ELSE Append(users, user)

\* mutant: the color is picked by the number of users present
nextColor_fromUsers(st) == userColors[(Len(st.users) % Len(userColors)) + 1]

nextColor(st) == userColors[(st.colorIdx % Len(userColors)) + 1]

newUser(st, userId, userName) ==
    [ id |-> userId, name |-> userName, color |-> nextColor(st), cursor |-> << >> ]

addUser(st, userId, userName) ==
    [ st EXCEPT !.users = MapSet(st.users, newUser(st, userId, userName)),
                !.colorIdx = st.colorIdx + 1 ]

\* mutant: the strokes of the user leave with it
removeUser_purge(st, userId) ==
    [ st EXCEPT !.users = SelectSeq(st.users, LAMBDA u : u.id # userId),
                !.operations = SelectSeq(st.operations, LAMBDA o : o.userId # userId) ]

removeUser(st, userId) ==
    [ st EXCEPT !.users = SelectSeq(st.users, LAMBDA u : u.id # userId) ]

getUsers(st) == st.users

\* mutant: a user that is not there is created
updateUserCursor_upsert(st, userId, x, y) ==
    IF \E i \in 1..Len(st.users) : st.users[i].id = userId
    THEN [ st EXCEPT !.users =
             [ i \in 1..Len(st.users) |->
                 IF st.users[i].id = userId
                 THEN [ st.users[i] EXCEPT !.cursor = << x, y >> ]
                 ELSE st.users[i] ] ]
    ELSE [ st EXCEPT !.users =
             Append(st.users, [ id |-> userId, name |-> "", color |-> "",
                                cursor |-> << x, y >> ]) ]

updateUserCursor(st, userId, x, y) ==
    [ st EXCEPT !.users =
        [ i \in 1..Len(st.users) |->
            IF st.users[i].id = userId
            THEN [ st.users[i] EXCEPT !.cursor = << x, y >> ]
            ELSE st.users[i] ] ]

\* mutant: unshift instead of push
addOperation_unshift(st, op) ==
    [ st EXCEPT !.operations = << op >> \o st.operations ]

addOperation(st, op) == [ st EXCEPT !.operations = Append(st.operations, op) ]

\* mutant: the history is not copied into the snapshot
getAllOperations_empty(st) == << >>

getAllOperations(st) == st.operations

\* the removed operation, << >> standing for null
undoResult(st) ==
    IF Len(st.operations) = 0 THEN << >> ELSE << Last(st.operations) >>

\* mutant: shift instead of pop
undoLastOperation_shift(st) ==
    IF Len(st.operations) = 0 THEN st
    ELSE [ st EXCEPT !.operations = Tail(st.operations) ]

undoLastOperation(st) ==
    IF Len(st.operations) = 0 THEN st
    ELSE [ st EXCEPT !.operations = Front(st.operations) ]

\* mutant: the operation put back gets a new timestamp
redoOperation_restamp(st, op) ==
    [ st EXCEPT !.operations = Append(st.operations, [ op EXCEPT !.timestamp = 0 ]) ]

redoOperation(st, op) == [ st EXCEPT !.operations = Append(st.operations, op) ]

\* mutant: drops the last operation only
clearAll_pop(st) ==
    [ st EXCEPT !.operations = SubSeq(st.operations, 1, Len(st.operations) - 1) ]

\* mutant: the whole state is reset
clearAll_users(st) == [ st EXCEPT !.operations = << >>, !.users = << >> ]

clearAll(st) == [ st EXCEPT !.operations = << >> ]

\* ------------------------------------------------- RoomManager (server)
hasRoom(rms, roomId) == roomId \in DOMAIN rms

\* mutant: set without the has() test
getRoom_fresh(rms, roomId) ==
    [ q \in DOMAIN rms \cup {roomId} |->
        IF q = roomId THEN NewDrawingState ELSE rms[q] ]

getRoom(rms, roomId) ==
    IF hasRoom(rms, roomId) THEN rms ELSE rms @@ (roomId :> NewDrawingState)

\* mutant: the users are not looked at
deletesRoom_always(rms, roomId) == hasRoom(rms, roomId)

deletesRoom(rms, roomId) ==
    hasRoom(rms, roomId) /\ Len(getUsers(rms[roomId])) = 0

\* mutant: the room is never released
deleteRoomIfEmpty_never(rms, roomId) == rms

deleteRoomIfEmpty(rms, roomId) ==
    IF deletesRoom(rms, roomId)
    THEN [ r \in DOMAIN rms \ {roomId} |-> rms[r] ]
    ELSE rms

getAllRoomIds(rms) == DOMAIN rms

\* ------------------------------------------------ CanvasManager (client)
distSq(p, q) == (q.x - p.x) * (q.x - p.x) + (q.y - p.y) * (q.y - p.y)

\* mutant: >= where > is meant
farther_orEqual(p, q) == distSq(p, q) >= tolerance * tolerance

\* Math.sqrt(d) > tolerance, on integer coordinates
farther(p, q) == distSq(p, q) > tolerance * tolerance

RECURSIVE simplifyLoop(_, _, _)
simplifyLoop(points, i, result) ==
    IF i > Len(points) - 1 THEN result
    ELSE LET prev == Last(result)
             curr == points[i]
             next == points[i + 1]
         IN  IF farther(prev, curr) \/ farther(curr, next)
             THEN simplifyLoop(points, i + 1, Append(result, curr))
             ELSE simplifyLoop(points, i + 1, result)

\* mutant: the path is sent as drawn
simplifyPath_keepAll(points) == points

\* mutant: the last point is not pushed
simplifyPath_noLast(points) ==
    IF Len(points) <= 2 THEN points
    ELSE simplifyLoop(points, 2, << points[1] >>)

\* mutant: no early return for a path of one or two points
simplifyPath_noShortcut(points) ==
    Append(simplifyLoop(points, 2, << points[1] >>), Last(points))

simplifyPath(points) ==
    IF Len(points) <= 2 THEN points
    ELSE Append(simplifyLoop(points, 2, << points[1] >>), Last(points))

startDrawing(cs, x, y) ==
    [ cs EXCEPT !.isDrawing = TRUE, !.currentPoints = << [ x |-> x, y |-> y ] >> ]

continueDrawing(cs, x, y) ==
    IF ~cs.isDrawing THEN cs
    ELSE [ cs EXCEPT !.currentPoints = Append(cs.currentPoints, [ x |-> x, y |-> y ]) ]

\* CanvasManager.stopDrawing returns an operation: does it?
strokeEnds(cs) == cs.isDrawing /\ Len(cs.currentPoints) # 0

newOperation(cs, now) ==
    [ id |-> << cs.currentUser.id, now >>,
      userId |-> cs.currentUser.id,
      userName |-> cs.currentUser.name,
      type |-> "draw",
      points |-> simplifyPath(cs.currentPoints),
      color |-> defaultColor,
      width |-> defaultWidth,
      timestamp |-> now ]

\* mutant: the drawing state is left as it was when an operation is built
canvasStopDrawing_noReset(cs, now) ==
    IF ~strokeEnds(cs) THEN [ cs EXCEPT !.isDrawing = FALSE ]
    ELSE [ cs EXCEPT !.operations = Append(cs.operations, newOperation(cs, now)) ]

canvasStopDrawing(cs, now) ==
    IF ~strokeEnds(cs) THEN [ cs EXCEPT !.isDrawing = FALSE ]
    ELSE [ cs EXCEPT !.isDrawing = FALSE,
                     !.operations = Append(cs.operations, newOperation(cs, now)),
                     !.currentPoints = << >> ]

\* ------------------------------------------- CollaborativeCanvas (client)
NewClient ==
    [ joined |-> FALSE, connected |-> FALSE, currentUser |-> NoUser,
      operations |-> << >>, redoStack |-> << >>,
      isDrawing |-> FALSE, currentPoints |-> << >> ]

clearRedoStack(cs) == [ cs EXCEPT !.redoStack = << >> ]

onInitState(cs, data) ==
    [ cs EXCEPT !.currentUser = data.user, !.operations = data.operations ]

onDrawOperation(cs, op) ==
    clearRedoStack([ cs EXCEPT !.operations = Append(cs.operations, op) ])

\* mutant: unshift instead of push on the redo stack
onUndo_unshift(cs, data) ==
    [ cs EXCEPT
        !.operations = SelectSeq(cs.operations, LAMBDA o : o.id # data.operationId),
        !.redoStack = << data.operation >> \o cs.redoStack ]

\* mutant: the newest local operation is dropped, whatever its id
onUndo_popLast(cs, data) ==
    [ cs EXCEPT
        !.operations = SubSeq(cs.operations, 1, Len(cs.operations) - 1),
        !.redoStack = Append(cs.redoStack, data.operation) ]

onUndo(cs, data) ==
    [ cs EXCEPT
        !.operations = SelectSeq(cs.operations, LAMBDA o : o.id # data.operationId),
        !.redoStack = Append(cs.redoStack, data.operation) ]

\* mutant: the top of the redo stack is popped, whatever its id
onRedo_pop(cs, op) ==
    [ cs EXCEPT
        !.operations = Append(cs.operations, op),
        !.redoStack = SubSeq(cs.redoStack, 1, Len(cs.redoStack) - 1) ]

onRedo(cs, op) ==
    [ cs EXCEPT
        !.operations = Append(cs.operations, op),
        !.redoStack = SelectSeq(cs.redoStack, LAMBDA o : o.id # op.id) ]

onClearCanvas(cs) ==
    clearRedoStack([ cs EXCEPT !.operations = << >> ])

\* does CollaborativeCanvas.stopDrawing get an operation to send?
stopYields(cs) == cs.currentUser # NoUser /\ strokeEnds(cs)

stopDrawing(cs, now) ==
    IF cs.currentUser = NoUser THEN cs
    ELSE IF strokeEnds(cs) THEN clearRedoStack(canvasStopDrawing(cs, now))
    ELSE canvasStopDrawing(cs, now)

\* CollaborativeCanvas.undo / redo: is a request emitted?
\* mutant: no look at the local history
undoSends_always(cs) == cs.connected

undoSends(cs) == Len(cs.operations) # 0 /\ cs.connected
redoSends(cs) == Len(cs.redoStack) # 0 /\ cs.connected

\* ------------------------------------------------------------- transport
\* mutant: io.emit, every socket that joined anything
InRoom_any(sk, roomId) == { d \in Conns : sk[d].rooms # {} }

InRoom(sk, roomId) == { d \in Conns : roomId \in sk[d].rooms }

\* socket.to(room) from socket c / io.to(room)
\* mutant: io.to(room) where socket.to(room) is meant
toOthers_all(sk, c, roomId) == InRoom(sk, roomId)

toOthers(sk, c, roomId) == InRoom(sk, roomId) \ {c}
toAll(sk, roomId) == InRoom(sk, roomId)

Emit(dn, targets, m) ==
    [ d \in Conns |-> IF d \in targets THEN Append(dn[d], m) ELSE dn[d] ]

HasSpace(targets) == \A d \in targets : Len(down[d]) < MaxDown

Arrived(c, type) ==
    client[c].connected /\ down[c] # << >> /\ Head(down[c]).type = type

Take(c) == down' = [ down EXCEPT ![c] = Tail(down[c]) ]

\* ------------------------------------------------------------------ Init
NewSocket == [ status |-> "none", currentRoom |-> NoRoom, currentUserId |-> NoId,
               rooms |-> {} ]

Init ==
    /\ rooms = << >>
    /\ sock = [ c \in Conns |-> NewSocket ]
    /\ down = [ c \in Conns |-> << >> ]
    /\ client = [ c \in Conns |-> NewClient ]
    /\ clock = 0

\* ------------------------------------------------- server: socket handlers
\* mutant: init-state goes to the room, io.to(roomId), not to the socket
JoinRoom_initToRoom(c, data) ==
    LET rm == getRoom(rooms, data.roomId)
        st == addUser(rm[data.roomId], c, data.userName)
        user == newUser(rm[data.roomId], c, data.userName)
        sk == [ sock EXCEPT ![c] = [ status |-> "open",
                                     currentRoom |-> data.roomId,
                                     currentUserId |-> c,
                                     rooms |-> sock[c].rooms \cup {data.roomId} ] ]
        init == [ type |-> "init-state", userId |-> c, user |-> user,
                  operations |-> getAllOperations(st), users |-> getUsers(st) ]
        joined == [ type |-> "user-joined", user |-> user, users |-> getUsers(st) ]
    IN  /\ HasSpace(toAll(sk, data.roomId))
        /\ sock' = sk
        /\ rooms' = [ rm EXCEPT ![data.roomId] = st ]
        /\ down' = Emit(Emit(down, toAll(sk, data.roomId), init),
                        toOthers(sk, c, data.roomId), joined)

\* socket.on('join-room', data)
JoinRoom(c, data) ==
    LET rm == getRoom(rooms, data.roomId)
        st == addUser(rm[data.roomId], c, data.userName)
        user == newUser(rm[data.roomId], c, data.userName)
        sk == [ sock EXCEPT ![c] = [ status |-> "open",
                                     currentRoom |-> data.roomId,
                                     currentUserId |-> c,
                                     rooms |-> sock[c].rooms \cup {data.roomId} ] ]
        init == [ type |-> "init-state", userId |-> c, user |-> user,
                  operations |-> getAllOperations(st), users |-> getUsers(st) ]
        joined == [ type |-> "user-joined", user |-> user, users |-> getUsers(st) ]
    IN  /\ HasSpace(toAll(sk, data.roomId))
        /\ sock' = sk
        /\ rooms' = [ rm EXCEPT ![data.roomId] = st ]
        /\ down' = Emit(Emit(down, {c}, init), toOthers(sk, c, data.roomId), joined)

\* mutant: the handler lacks if (!currentRoom) return
DrawOperation_noGuard(c, op) ==
    LET r == sock[c].currentRoom
        rm == getRoom(rooms, r)
    IN  /\ UNCHANGED sock
        /\ HasSpace(toOthers(sock, c, r))
        /\ Len(rm[r].operations) < MaxLog
        /\ rooms' = [ rm EXCEPT ![r] = addOperation(rm[r], op) ]
        /\ down' = Emit(down, toOthers(sock, c, r),
                        [ type |-> "draw-operation", op |-> op ])

\* socket.on('draw-operation', op)
DrawOperation(c, op) ==
    LET r == sock[c].currentRoom
        rm == getRoom(rooms, r)
    IN  /\ UNCHANGED sock
        /\ IF r = NoRoom THEN UNCHANGED << rooms, down >>
           ELSE /\ HasSpace(toOthers(sock, c, r))
                /\ Len(rm[r].operations) < MaxLog
                /\ rooms' = [ rm EXCEPT ![r] = addOperation(rm[r], op) ]
                /\ down' = Emit(down, toOthers(sock, c, r),
                                [ type |-> "draw-operation", op |-> op ])

\* socket.on('cursor-move', data)
CursorMove(c, data) ==
    LET r == sock[c].currentRoom
        rm == getRoom(rooms, r)
    IN  /\ UNCHANGED sock
        /\ IF r = NoRoom \/ sock[c].currentUserId = NoId
           THEN UNCHANGED << rooms, down >>
           ELSE /\ HasSpace(toOthers(sock, c, r))
                /\ rooms' = [ rm EXCEPT ![r] =
                                updateUserCursor(rm[r], sock[c].currentUserId,
                                                 data.x, data.y) ]
                /\ down' = Emit(down, toOthers(sock, c, r),
                                [ type |-> "cursor-move",
                                  userId |-> sock[c].currentUserId,
                                  x |-> data.x, y |-> data.y ])

\* mutant: the broadcast is not guarded by if (undoneOp)
Undo_alwaysEmits(c) ==
    LET r == sock[c].currentRoom
        rm == getRoom(rooms, r)
        undoneOp == undoResult(rm[r])
    IN  /\ UNCHANGED sock
        /\ IF r = NoRoom THEN UNCHANGED << rooms, down >>
           ELSE /\ HasSpace(toAll(sock, r))
                /\ rooms' = [ rm EXCEPT ![r] = undoLastOperation(rm[r]) ]
                /\ down' = Emit(down, toAll(sock, r),
                                [ type |-> "undo",
                                  operationId |-> IF undoneOp = << >> THEN << >>
                                                  ELSE undoneOp[1].id,
                                  operation |-> undoneOp ])

\* socket.on('undo')
Undo(c) ==
    LET r == sock[c].currentRoom
        rm == getRoom(rooms, r)
        undoneOp == undoResult(rm[r])
    IN  /\ UNCHANGED sock
        /\ IF r = NoRoom THEN UNCHANGED << rooms, down >>
           ELSE /\ HasSpace(toAll(sock, r))
                /\ rooms' = [ rm EXCEPT ![r] = undoLastOperation(rm[r]) ]
                /\ down' = IF undoneOp = << >> THEN down
                           ELSE Emit(down, toAll(sock, r),
                                     [ type |-> "undo",
                                       operationId |-> undoneOp[1].id,
                                       operation |-> undoneOp[1] ])

\* socket.on('redo', op)
Redo(c, op) ==
    LET r == sock[c].currentRoom
        rm == getRoom(rooms, r)
    IN  /\ UNCHANGED sock
        /\ IF r = NoRoom THEN UNCHANGED << rooms, down >>
           ELSE /\ HasSpace(toAll(sock, r))
                /\ Len(rm[r].operations) < MaxLog
                /\ rooms' = [ rm EXCEPT ![r] = redoOperation(rm[r], op) ]
                /\ down' = Emit(down, toAll(sock, r), [ type |-> "redo", op |-> op ])

\* socket.on('clear-canvas')
ClearCanvas(c) ==
    LET r == sock[c].currentRoom
        rm == getRoom(rooms, r)
    IN  /\ UNCHANGED sock
        /\ IF r = NoRoom THEN UNCHANGED << rooms, down >>
           ELSE /\ HasSpace(toAll(sock, r))
                /\ rooms' = [ rm EXCEPT ![r] = clearAll(rm[r]) ]
                /\ down' = Emit(down, toAll(sock, r), [ type |-> "clear-canvas" ])

\* mutant: the registry is asked to release the room before the user left
Disconnect_releaseFirst(c) ==
    LET r == sock[c].currentRoom
        rm == getRoom(rooms, r)
        st == removeUser(rm[r], sock[c].currentUserId)
        sk == [ sock EXCEPT ![c].status = "closed", ![c].rooms = {} ]
        left == [ type |-> "user-left", userId |-> sock[c].currentUserId,
                  users |-> getUsers(st) ]
    IN  /\ sock' = sk
        /\ IF r # NoRoom /\ sock[c].currentUserId # NoId
           THEN /\ HasSpace(toOthers(sk, c, r))
                /\ rooms' = [ deleteRoomIfEmpty(rm, r) EXCEPT ![r] = st ]
                /\ down' = [ Emit(down, toOthers(sk, c, r), left) EXCEPT ![c] = << >> ]
           ELSE /\ rooms' = rooms
                /\ down' = [ down EXCEPT ![c] = << >> ]

\* mutant: the handler does not call deleteRoomIfEmpty
Disconnect_noRelease(c) ==
    LET r == sock[c].currentRoom
        rm == getRoom(rooms, r)
        st == removeUser(rm[r], sock[c].currentUserId)
        sk == [ sock EXCEPT ![c].status = "closed", ![c].rooms = {} ]
        left == [ type |-> "user-left", userId |-> sock[c].currentUserId,
                  users |-> getUsers(st) ]
    IN  /\ sock' = sk
        /\ IF r # NoRoom /\ sock[c].currentUserId # NoId
           THEN /\ HasSpace(toOthers(sk, c, r))
                /\ rooms' = [ rm EXCEPT ![r] = st ]
                /\ down' = [ Emit(down, toOthers(sk, c, r), left) EXCEPT ![c] = << >> ]
           ELSE /\ rooms' = rooms
                /\ down' = [ down EXCEPT ![c] = << >> ]

\* socket.on('disconnect'): the socket has left its socket.io rooms, and
\* nothing on its way to it is delivered any more
Disconnect(c) ==
    LET r == sock[c].currentRoom
        rm == getRoom(rooms, r)
        st == removeUser(rm[r], sock[c].currentUserId)
        sk == [ sock EXCEPT ![c].status = "closed", ![c].rooms = {} ]
        left == [ type |-> "user-left", userId |-> sock[c].currentUserId,
                  users |-> getUsers(st) ]
    IN  /\ sock' = sk
        /\ IF r # NoRoom /\ sock[c].currentUserId # NoId
           THEN /\ HasSpace(toOthers(sk, c, r))
                /\ rooms' = deleteRoomIfEmpty([ rm EXCEPT ![r] = st ], r)
                /\ down' = [ Emit(down, toOthers(sk, c, r), left) EXCEPT ![c] = << >> ]
           ELSE /\ rooms' = rooms
                /\ down' = [ down EXCEPT ![c] = << >> ]

\* ------------------------------------------------- client: user actions
\* The join modal: a new tab opens its socket and asks to join a room.
\* Connection numbers are handed out in the order the tabs join.
ClientJoinRoom(c) ==
    /\ ~client[c].joined
    /\ \A d \in Conns : d < c => client[d].joined
    /\ client' = [ client EXCEPT ![c].joined = TRUE, ![c].connected = TRUE ]
    /\ \E roomId \in RoomIds, userName \in UserNames :
         JoinRoom(c, [ roomId |-> roomId, userName |-> userName ])
    /\ UNCHANGED clock

Active(c) == client[c].joined /\ client[c].connected

\* mousedown / touchstart
StartDrawing(c) ==
    /\ Active(c)
    /\ clock < MaxOps
    /\ client' = [ client EXCEPT ![c] = startDrawing(client[c], 0, 0) ]
    /\ UNCHANGED << rooms, sock, down, clock >>

\* mouseup / mouseleave / touchend
StopDrawing(c) ==
    /\ Active(c)
    /\ LET cs == stopDrawing(client[c], clock + 1)
       IN  /\ client' = [ client EXCEPT ![c] = cs ]
           /\ IF stopYields(client[c])
              THEN /\ DrawOperation(c, Last(cs.operations))
                   /\ clock' = clock + 1
              ELSE UNCHANGED << rooms, sock, down, clock >>

\* undo button / Ctrl+Z
ClientUndo(c) ==
    /\ Active(c)
    /\ undoSends(client[c])
    /\ Undo(c)
    /\ UNCHANGED << client, clock >>

\* redo button / Ctrl+Y
ClientRedo(c) ==
    /\ Active(c)
    /\ redoSends(client[c])
    /\ Redo(c, Last(client[c].redoStack))
    /\ UNCHANGED << client, clock >>

\* clear button, confirmed
ClientClear(c) ==
    /\ Active(c)
    /\ ClearCanvas(c)
    /\ UNCHANGED << client, clock >>

\* the tab is closed: its socket closes and its CollaborativeCanvas is gone
ClosedClient == [ NewClient EXCEPT !.joined = TRUE ]

ClientDisconnect(c) ==
    /\ Active(c)
    /\ client' = [ client EXCEPT ![c] = ClosedClient ]
    /\ Disconnect(c)
    /\ UNCHANGED clock

\* ---------------------------------------------- client: socket callbacks
Deliver(c, cs) ==
    /\ client' = [ client EXCEPT ![c] = cs ]
    /\ Take(c)
    /\ UNCHANGED << rooms, sock, clock >>

RecvInitState(c) ==
    /\ Arrived(c, "init-state")
    /\ Deliver(c, onInitState(client[c], Head(down[c])))

\* onUserJoined / onUserLeft refresh the users panel only
RecvUserJoined(c) ==
    /\ Arrived(c, "user-joined")
    /\ Deliver(c, client[c])

RecvUserLeft(c) ==
    /\ Arrived(c, "user-left")
    /\ Deliver(c, client[c])

RecvDrawOperation(c) ==
    /\ Arrived(c, "draw-operation")
    /\ Deliver(c, onDrawOperation(client[c], Head(down[c]).op))

RecvUndo(c) ==
    /\ Arrived(c, "undo")
    /\ Deliver(c, onUndo(client[c], Head(down[c])))

RecvRedo(c) ==
    /\ Arrived(c, "redo")
    /\ Deliver(c, onRedo(client[c], Head(down[c]).op))

RecvClearCanvas(c) ==
    /\ Arrived(c, "clear-canvas")
    /\ Deliver(c, onClearCanvas(client[c]))

\* ------------------------------------------------------------------ Next
Next ==
    \E c \in Conns :
        \/ ClientJoinRoom(c)
        \/ StartDrawing(c)
        \/ StopDrawing(c)
        \/ ClientUndo(c)
        \/ ClientRedo(c)
        \/ ClientClear(c)
        \/ ClientDisconnect(c)
        \/ RecvInitState(c)
        \/ RecvUserJoined(c)
        \/ RecvUserLeft(c)
        \/ RecvDrawOperation(c)
        \/ RecvUndo(c)
        \/ RecvRedo(c)
        \/ RecvClearCanvas(c)

Spec == Init /\ [][Next]_vars

\* ------------------------------------------- the server under any client
\* The server's handlers accept every message of every open socket at any
\* time, whatever program is at the other end: join-room again, for the same
\* or another room, requests before any join, a redo of any operation, and
\* cursor traffic.  Here a connection is a socket that sends what it likes
\* and reads what arrives; no CollaborativeCanvas is attached to it.  What
\* a socket has read changes nothing it may send, so the sockets read
\* whatever has arrived before the server handles the next request.
MaxJoins == 2      \* joins a room's color counter is driven to
Cursors == { [ x |-> 1, y |-> 1 ] }

Drained == \A d \in Conns : down[d] = << >>

Open(c) == sock[c].status # "closed" /\ Drained

\* the stroke a socket may send, again and again
rawOperation(c) ==
    [ id |-> << c, 1 >>, userId |-> c, userName |-> "ann", type |-> "draw",
      points |-> << [ x |-> 0, y |-> 0 ] >>,
      color |-> defaultColor, width |-> defaultWidth, timestamp |-> 1 ]

RawOps == { rawOperation(c) : c \in Conns }

SockJoin(c) ==
    /\ Open(c)
    /\ \A d \in Conns : d < c => sock[d].status # "none"
    /\ \E roomId \in RoomIds, userName \in UserNames :
         /\ getRoom(rooms, roomId)[roomId].colorIdx < MaxJoins
         /\ JoinRoom(c, [ roomId |-> roomId, userName |-> userName ])
    /\ UNCHANGED << client, clock >>

\* a payload that is no DrawingOperation: the object {} (socket.io hands the
\* handler whatever was sent; a field that is missing reads as undefined)
\* (<< >> and 0 stand for undefined where an id or a number is read)
malformedOperation ==
    [ id |-> << >>, userId |-> 0, userName |-> "undefined",
      type |-> "undefined", points |-> << >>,
      color |-> "undefined", width |-> 0, timestamp |-> 0 ]

SockDraw(c) ==
    /\ Open(c)
    /\ \E op \in { rawOperation(c), malformedOperation } : DrawOperation(c, op)
    /\ UNCHANGED << client, clock >>

SockCursor(c) ==
    /\ Open(c)
    /\ \E data \in Cursors : CursorMove(c, data)
    /\ UNCHANGED << client, clock >>

SockUndo(c) ==
    /\ Open(c)
    /\ Undo(c)
    /\ UNCHANGED << client, clock >>

SockRedo(c) ==
    /\ Open(c)
    /\ \E op \in RawOps : Redo(c, op)
    /\ UNCHANGED << client, clock >>

SockClear(c) ==
    /\ Open(c)
    /\ ClearCanvas(c)
    /\ UNCHANGED << client, clock >>

SockClose(c) ==
    /\ Open(c)
    /\ Disconnect(c)
    /\ UNCHANGED << client, clock >>

\* the socket reads the next message that arrived
SockRecv(c) ==
    /\ down[c] # << >>
    /\ Take(c)
    /\ UNCHANGED << rooms, sock, client, clock >>

ServerNext ==
    \E c \in Conns :
        \/ SockJoin(c)
        \/ SockDraw(c)
        \/ SockCursor(c)
        \/ SockUndo(c)
        \/ SockRedo(c)
        \/ SockClear(c)
        \/ SockClose(c)
        \/ SockRecv(c)

ServerSpec == Init /\ [][ServerNext]_vars

\* --------------------------------------------------- a room joined often
\* One room that sockets join again and again, as often as it takes for the
\* palette to wrap, between the other requests.
MaxPalette == 9    \* joins the room's color counter is driven to

PaletteJoin(c) ==
    /\ Open(c)
    /\ \A d \in Conns : d < c => sock[d].status # "none"
    /\ getRoom(rooms, "r1")["r1"].colorIdx < MaxPalette
    /\ \E userName \in UserNames :
         JoinRoom(c, [ roomId |-> "r1", userName |-> userName ])
    /\ UNCHANGED << client, clock >>

PaletteNext ==
    \E c \in Conns :
        \/ PaletteJoin(c)
        \/ SockDraw(c)
        \/ SockUndo(c)
        \/ SockRedo(c)
        \/ SockClear(c)
        \/ SockClose(c)
        \/ SockRecv(c)

PaletteSpec == Init /\ [][PaletteNext]_vars

\* ------------------------------------------------- a connection that drops
\* The network drops the socket of a tab and socket.io opens a new one
\* (reconnection: true).  The server runs the disconnect handler of the old
\* socket; the new socket starts with currentRoom and currentUserId null.
\* The tab keeps its CollaborativeCanvas; its users draw while connected.
ConnectionLost(c) ==
    /\ Active(c)
    /\ client' = [ client EXCEPT ![c].connected = FALSE ]
    /\ Disconnect(c)
    /\ UNCHANGED clock

\* socket.on('connect') after a loss: connected = true, onConnect logs
Reconnected(c) ==
    /\ client[c].joined
    /\ ~client[c].connected
    /\ client' = [ client EXCEPT ![c].connected = TRUE ]
    /\ sock' = [ sock EXCEPT ![c] = [ NewSocket EXCEPT !.status = "open" ] ]
    /\ UNCHANGED << rooms, down, clock >>

ReconnectNext ==
    \E c \in Conns :
        \/ ClientJoinRoom(c)
        \/ StartDrawing(c)
        \/ StopDrawing(c)
        \/ ConnectionLost(c)
        \/ Reconnected(c)
        \/ RecvInitState(c)
        \/ RecvUserJoined(c)
        \/ RecvUserLeft(c)
        \/ RecvDrawOperation(c)

ReconnectSpec == Init /\ [][ReconnectNext]_vars

\* ------------------------------------------------- one freehand stroke
\* A stroke point by point: the tab of connection 1 has joined room r1, got
\* its init-state and the mouse went down somewhere on the canvas; every
\* mousemove adds a point, mouseup simplifies the path and sends it.
GridMax == 3       \* canvas coordinates 0..GridMax
MaxPoints == 4     \* longest stroke drawn
Grid == { [ x |-> x, y |-> y ] : x \in 0..GridMax, y \in 0..GridMax }

StrokeInit ==
    LET st == addUser(NewDrawingState, 1, "ann")
        user == newUser(NewDrawingState, 1, "ann")
        init == [ type |-> "init-state", userId |-> 1, user |-> user,
                  operations |-> getAllOperations(st), users |-> getUsers(st) ]
        joined == [ NewClient EXCEPT !.joined = TRUE, !.connected = TRUE ]
    IN  /\ rooms = ("r1" :> st)
        /\ sock = [ c \in Conns |->
                      IF c = 1 THEN [ status |-> "open", currentRoom |-> "r1",
                                      currentUserId |-> 1, rooms |-> {"r1"} ]
                      ELSE NewSocket ]
        /\ down = [ c \in Conns |-> << >> ]
        /\ \E p \in Grid :
             client = [ c \in Conns |->
                          IF c = 1 THEN startDrawing(onInitState(joined, init), p.x, p.y)
                          ELSE NewClient ]
        /\ clock = 0

\* mousemove / touchmove
ContinueDrawing(c) ==
    /\ Active(c)
    /\ client[c].isDrawing
    /\ Len(client[c].currentPoints) < MaxPoints
    /\ \E p \in Grid :
         client' = [ client EXCEPT ![c] = continueDrawing(client[c], p.x, p.y) ]
    /\ UNCHANGED << rooms, sock, down, clock >>

StrokeNext ==
    \E c \in Conns :
        \/ ContinueDrawing(c)
        \/ StopDrawing(c)

StrokeSpec == StrokeInit /\ [][StrokeNext]_vars

\* ================================================================ claims
Log(r) == rooms[r].operations
RoomOf(c) == sock[c].currentRoom
Ids(ops) == { ops[i].id : i \in 1..Len(ops) }
\* the step finishes a stroke of client c and applies it to c's room
Applies(c) == StopDrawing(c) /\ stopYields(client[c])

\* C1: every apply appends the applied operation at the tail of the log of
\* the sender's room and changes nothing else of any log: the log is the
\* applied operations in the order the server processed them, each once.
C1_ApplyAppendsAtTail ==
    [][ \A c \in Conns :
          Applies(c) =>
            LET r == RoomOf(c)
                op == Last(client'[c].operations)
            IN  /\ r \in DOMAIN rooms
                /\ rooms'[r].operations = Append(Log(r), op)
                /\ op.id \notin Ids(Log(r))
                /\ DOMAIN rooms' = DOMAIN rooms
                /\ \A q \in DOMAIN rooms \ {r} : rooms'[q] = rooms[q] ]_vars

\* two users of one room have each had a stroke applied
C1_Witness ==
    \E r \in DOMAIN rooms :
        /\ Len(Log(r)) = 2
        /\ Log(r)[1].userId # Log(r)[2].userId

\* C2: no log ever holds two operations with the same id.
C2_LogIdsUnique ==
    \A r \in DOMAIN rooms :
        \A i, j \in 1..Len(Log(r)) : i # j => Log(r)[i].id # Log(r)[j].id

\* C3: an undo on a non-empty log removes exactly the last log entry,
\* whoever drew it and whoever asks, hands that entry to every member of
\* the room, and keeps the other entries and their order.
C3_UndoRemovesLast ==
    [][ \A c \in Conns :
          (ClientUndo(c) /\ RoomOf(c) \in DOMAIN rooms /\ Log(RoomOf(c)) # << >>) =>
            LET r == RoomOf(c)
                n == Len(Log(r))
                undone == [ type |-> "undo", operationId |-> Log(r)[n].id,
                            operation |-> Log(r)[n] ]
            IN  /\ rooms'[r].operations = SubSeq(Log(r), 1, n - 1)
                /\ \A d \in InRoom(sock, r) : down'[d] = Append(down[d], undone) ]_vars

\* an undo handed to a member who did not draw the removed operation, while
\* an older operation stays in the log
C3_Witness ==
    \E c \in Conns :
        /\ down[c] # << >>
        /\ Head(down[c]).type = "undo"
        /\ Head(down[c]).operation.userId # c
        /\ RoomOf(c) \in DOMAIN rooms
        /\ Len(Log(RoomOf(c))) = 1

\* C4: the operation an undo removed from the log becomes the last entry
\* of the redo stack of a participant when the undo reaches it, the entries
\* already there keeping their order (most recently undone last); after
\* apply(op1), apply(op2), undo the log is [op1] and the redo stack [op2].
C4_UndonePushedLast ==
    [][ \A c \in Conns :
          /\ RecvUndo(c) =>
               client'[c].redoStack =
                   Append(client[c].redoStack, Head(down[c]).operation)
          /\ (ClientUndo(c) /\ RoomOf(c) \in DOMAIN rooms /\ Len(Log(RoomOf(c))) = 2) =>
               /\ rooms'[RoomOf(c)].operations = << Log(RoomOf(c))[1] >>
               /\ Last(down'[c]).operation = Log(RoomOf(c))[2] ]_vars

\* two undos have reached a participant: the older undone operation is
\* below the newer one, and the log is empty
C4_Witness ==
    \E c \in Conns :
        /\ Len(client[c].redoStack) = 2
        /\ client[c].redoStack[1].timestamp > client[c].redoStack[2].timestamp
        /\ RoomOf(c) \in DOMAIN rooms
        /\ Log(RoomOf(c)) = << >>

\* what the client state is once everything on its way to it has arrived
RECURSIVE Drain(_, _)
Drain(cs, q) ==
    IF q = << >> THEN cs
    ELSE LET m == Head(q)
         IN  Drain(CASE m.type = "init-state" -> onInitState(cs, m)
                     [] m.type = "draw-operation" -> onDrawOperation(cs, m.op)
                     [] m.type = "undo" -> onUndo(cs, m)
                     [] m.type = "redo" -> onRedo(cs, m.op)
                     [] m.type = "clear-canvas" -> onClearCanvas(cs)
                     [] OTHER -> cs,
                   Tail(q))

\* C5: round trip.  From every state with a non-empty log, an undo followed
\* at once by the redo of the operation it returned leaves the log as it
\* was, and leaves the redo stack of a participant as it was before the two
\* reached it.
C5_UndoRedoRoundTrip ==
    \A c \in Conns :
        (Active(c) /\ RoomOf(c) \in DOMAIN rooms /\ Log(RoomOf(c)) # << >>) =>
            LET st == rooms[RoomOf(c)]
                op == undoResult(st)[1]
                data == [ type |-> "undo", operationId |-> op.id, operation |-> op ]
                cs == Drain(client[c], down[c])
            IN  /\ redoOperation(undoLastOperation(st), op).operations = st.operations
                /\ onRedo(onUndo(cs, data), op).redoStack = cs.redoStack

\* C6: once a new operation is applied, nothing undone before it can be
\* redone: every participant of the room has, and after the deliveries on
\* their way to it still has, an empty redo stack.
C6_ApplyDiscardsRedo ==
    [][ \A c \in Conns :
          Applies(c) =>
            \A d \in InRoom(sock, RoomOf(c)) :
                Drain(client'[d], down'[d]).redoStack = << >> ]_vars

\* C7: a clear empties the log, and the history and redo stack of every
\* participant it reaches; an undo on the empty log removes nothing and is
\* not announced; a log holds drawing operations only, never a clear.
C7_ClearEmpties ==
    [][ \A c \in Conns :
          /\ (ClientClear(c) /\ RoomOf(c) \in DOMAIN rooms) =>
               /\ rooms'[RoomOf(c)].operations = << >>
               /\ \A d \in InRoom(sock, RoomOf(c)) :
                    Last(down'[d]) = [ type |-> "clear-canvas" ]
          /\ RecvClearCanvas(c) =>
               /\ client'[c].operations = << >>
               /\ client'[c].redoStack = << >>
          /\ (ClientUndo(c) /\ RoomOf(c) \in DOMAIN rooms /\ Log(RoomOf(c)) = << >>) =>
               /\ rooms' = rooms
               /\ down' = down
          /\ \A r \in DOMAIN rooms' :
               \A i \in 1..Len(rooms'[r].operations) :
                   rooms'[r].operations[i].type \in { "draw", "erase" } ]_vars

\* a clear has emptied a log while a participant still holds history and a
\* redo stack that the clear on its way to it will empty
C7_Witness ==
    \E c \in Conns :
        /\ down[c] # << >>
        /\ Head(down[c]).type = "clear-canvas"
        /\ client[c].redoStack # << >>
        /\ client[c].operations # << >>
        /\ Log(RoomOf(c)) = << >>

UserIds(users) == { users[i].id : i \in 1..Len(users) }

\* C8: the init-state sent to a joiner holds the room's whole log in log
\* order and the users list with the joiner and every user already there.
C8_InitStateSnapshot ==
    [][ \A c \in Conns :
          ClientJoinRoom(c) =>
            LET r == sock'[c].currentRoom
                before == IF r \in DOMAIN rooms THEN rooms[r] ELSE NewDrawingState
                init == Last(down'[c])
            IN  /\ init.type = "init-state"
                /\ init.userId = c
                /\ init.operations = before.operations
                /\ init.operations = rooms'[r].operations
                /\ UserIds(init.users) = UserIds(before.users) \cup {c}
                /\ \A i \in 1..Len(before.users) : init.users[i] = before.users[i]
                /\ init.user \in Range(init.users) ]_vars

\* join(r1, A), apply(opA), join(r1, B): B's snapshot has opA and both users
C8_Witness ==
    \E c \in Conns :
        /\ down[c] # << >>
        /\ Head(down[c]).type = "init-state"
        /\ Len(Head(down[c]).operations) = 1
        /\ Head(down[c]).operations[1].userId # c
        /\ UserIds(Head(down[c]).users) = { c, Head(down[c]).operations[1].userId }

\* nothing is on its way to any client
Quiescent == \A c \in Conns : down[c] = << >>

\* C9: when every message has been delivered, the history of each
\* participant is the log of its room, entry for entry.
C9_HistoriesAgree ==
    Quiescent =>
        \A c \in Conns :
            (Active(c) /\ client[c].currentUser # NoUser) =>
                client[c].operations = Log(RoomOf(c))

RoomsHaveUsers == \A r \in DOMAIN rooms : Len(rooms[r].users) >= 1

\* C10: between handlers every room of the registry has at least one user;
\* a room appears only when a connection joins it and disappears only when
\* a disconnect takes its last user.
C10_RoomsHaveUsers ==
    /\ []RoomsHaveUsers
    /\ [][ /\ \A r \in DOMAIN rooms' \ DOMAIN rooms :
                \E c \in Conns : ClientJoinRoom(c) /\ sock'[c].currentRoom = r
           /\ \A r \in DOMAIN rooms \ DOMAIN rooms' :
                \E c \in Conns : /\ ClientDisconnect(c)
                                 /\ RoomOf(c) = r
                                 /\ UserIds(rooms[r].users) = {c} ]_vars

\* a room has been released after its last user left
C10_Witness ==
    \E c \in Conns :
        /\ sock[c].status = "closed"
        /\ sock[c].currentRoom \notin DOMAIN rooms
        /\ DOMAIN rooms # {}

\* C11: deleteRoomIfEmpty removes a room exactly when the room is registered
\* and has no user at the call, and answers true exactly when it removed it:
\* false, and no change, for a room with users and for an unknown room.
\* Rooms leave the registry in no other way: only the disconnect that takes
\* the last user of a room removes it, and it removes that room alone.
C11_ReleaseIfEmpty ==
    /\ [](\A q \in RoomIds :
            LET after == deleteRoomIfEmpty(rooms, q)
                empty == q \in DOMAIN rooms /\ rooms[q].users = << >>
            IN  /\ deletesRoom(rooms, q) <=> empty
                /\ DOMAIN after = IF empty THEN DOMAIN rooms \ {q} ELSE DOMAIN rooms
                /\ \A x \in DOMAIN after : after[x] = rooms[x])
    /\ [][ /\ \A c \in Conns :
                ClientDisconnect(c) =>
                  LET r == RoomOf(c)
                      remaining == UserIds(rooms[r].users) \ {c}
                  IN  /\ (r \notin DOMAIN rooms') <=> (remaining = {})
                      /\ DOMAIN rooms' \cup {r} = DOMAIN rooms
           /\ (DOMAIN rooms \ DOMAIN rooms' # {}) =>
                \E c \in Conns : ClientDisconnect(c) ]_vars

\* join, then leave at once with no operation submitted: the room is gone
C11_Witness ==
    /\ clock = 0
    /\ DOMAIN rooms = {}
    /\ \E c \in Conns : sock[c].status = "closed"

\* C12: getRoom answers with the registered state of a room, or registers an
\* empty one for a room not seen before; asking again changes nothing.  A
\* join to a registered room works on the state that is there (its log and
\* its users stay) and the registry gains no entry but the joined room.
C12_ResolveOnce ==
    /\ [](\A q \in RoomIds :
            LET t == getRoom(rooms, q)
            IN  /\ DOMAIN t = DOMAIN rooms \cup {q}
                /\ \A x \in DOMAIN rooms : t[x] = rooms[x]
                /\ q \notin DOMAIN rooms =>
                     t[q] = [ operations |-> << >>, users |-> << >>, colorIdx |-> 0 ]
                /\ getRoom(t, q) = t)
    /\ [][ \A c \in Conns :
             ClientJoinRoom(c) =>
               LET r == sock'[c].currentRoom
               IN  /\ DOMAIN rooms' = DOMAIN rooms \cup {r}
                   /\ \A x \in DOMAIN rooms \ {r} : rooms'[x] = rooms[x]
                   /\ r \in DOMAIN rooms =>
                        /\ rooms'[r].operations = rooms[r].operations
                        /\ SubSeq(rooms'[r].users, 1, Len(rooms[r].users))
                             = rooms[r].users ]_vars

\* two connections asked for the same room, unseen before the first: one
\* state holds both users
C12_Witness ==
    /\ Cardinality(DOMAIN rooms) = 1
    /\ \E r \in DOMAIN rooms : UserIds(rooms[r].users) = Conns

\* C13: once the disconnect of a connection is processed, its id is in the
\* users of no room, whatever joins the connection sent before.
C13_UserGoneOnDisconnect ==
    \A c \in Conns :
        sock[c].status = "closed" =>
            \A r \in DOMAIN rooms : c \notin UserIds(rooms[r].users)

\* C14: the disconnect of a user takes that user, and nothing else, out of
\* the users of its room; the log of the room, with the strokes of the user
\* that left, their userId and userName, and every other room stay as they
\* are.
C14_LeaveKeepsLog ==
    [][ \A c \in Conns :
          ClientDisconnect(c) =>
            LET r == RoomOf(c)
            IN  /\ r \in DOMAIN rooms' =>
                     /\ rooms'[r].operations = rooms[r].operations
                     /\ rooms'[r].users = SelectSeq(rooms[r].users, LAMBDA u : u.id # c)
                     /\ rooms'[r].colorIdx = rooms[r].colorIdx
                /\ \A q \in DOMAIN rooms \ {r} : rooms'[q] = rooms[q] ]_vars

\* a log holds a stroke of a user that has disconnected
C14_Witness ==
    \E r \in DOMAIN rooms :
        \E i \in 1..Len(Log(r)) :
            /\ sock[Log(r)[i].userId].status = "closed"
            /\ Log(r)[i].userName \in UserNames

\* C15: a clear leaves the users of the room (who is there, names, colors,
\* cursors, and their order) as they are.
C15_ClearKeepsUsers ==
    [][ \A c \in Conns :
          (SockClear(c) /\ RoomOf(c) # NoRoom) =>
            /\ rooms'[RoomOf(c)].users = rooms[RoomOf(c)].users
            /\ rooms'[RoomOf(c)].colorIdx = rooms[RoomOf(c)].colorIdx
            /\ DOMAIN rooms' = DOMAIN rooms ]_vars

\* a clear has emptied the log of a room with two users, one with a cursor
C15_Witness ==
    \E c \in Conns :
        /\ down[c] # << >>
        /\ Head(down[c]).type = "clear-canvas"
        /\ Log(RoomOf(c)) = << >>
        /\ Len(rooms[RoomOf(c)].users) = 2
        /\ \E i \in 1..2 : rooms[RoomOf(c)].users[i].cursor # << >>

\* the open connections whose user is in the users of room r
Members(r) ==
    { d \in Conns : sock[d].status = "open" /\ d \in UserIds(rooms[r].users) }

\* this step hands connection d one more message, of the given type
Gets(d, type) ==
    /\ Len(down'[d]) = Len(down[d]) + 1
    /\ SubSeq(down'[d], 1, Len(down[d])) = down[d]
    /\ Last(down'[d]).type = type

\* this step hands the one message to the connections of aud and to no other
HandsTo(aud, type) ==
    \A d \in Conns : IF d \in aud THEN Gets(d, type) ELSE down'[d] = down[d]

\* C16: a stroke or a cursor position goes to every connection of the
\* sender's room but the sender, and to no connection outside the room; an
\* undo, a redo or a clear goes to every connection of the room, the sender
\* among them, and to no other.
C16_Audience ==
    [][ \A c \in Conns :
          LET r == RoomOf(c)
          IN  /\ (SockDraw(c) /\ r # NoRoom) =>
                    /\ c \in Members(r)
                    /\ HandsTo(Members(r) \ {c}, "draw-operation")
              /\ (SockCursor(c) /\ r # NoRoom) =>
                    HandsTo(Members(r) \ {c}, "cursor-move")
              /\ (SockUndo(c) /\ r # NoRoom /\ Log(r) # << >>) =>
                    /\ c \in Members(r)
                    /\ HandsTo(Members(r), "undo")
              /\ (SockRedo(c) /\ r # NoRoom) => HandsTo(Members(r), "redo")
              /\ (SockClear(c) /\ r # NoRoom) => HandsTo(Members(r), "clear-canvas")
      ]_vars

\* a stroke is on its way to the other member of the room and not to its
\* sender
C16_Witness ==
    \E c, d \in Conns :
        /\ c # d
        /\ down[c] = << >>
        /\ down[d] # << >>
        /\ Head(down[d]).type = "draw-operation"
        /\ Head(down[d]).op.userId = c
        /\ RoomOf(c) = RoomOf(d)

\* C17: what a handler sends was read after its change of the room: the
\* users list sent on a join holds the joiner, the users list sent on a
\* disconnect does not hold the user that left, and the operation sent on an
\* undo is not in the log any more.
C17_PayloadAfterMutation ==
    [][ \A c \in Conns :
          /\ ClientJoinRoom(c) =>
               \A d \in Conns :
                   down'[d] # down[d] => c \in UserIds(Last(down'[d]).users)
          /\ ClientDisconnect(c) =>
               \A d \in Conns \ {c} :
                   down'[d] # down[d] => c \notin UserIds(Last(down'[d]).users)
          /\ (ClientUndo(c) /\ Log(RoomOf(c)) # << >>) =>
               Last(down'[c]).operation.id \notin Ids(rooms'[RoomOf(c)].operations)
      ]_vars

\* C18: on the disconnect of a joined connection the user leaves the room
\* first, the user-left message to the members that remain is built from
\* the users after that, and the room is released last, when nobody
\* remains, and kept with the remaining users otherwise.
C18_DisconnectOrder ==
    [][ \A c \in Conns :
          ClientDisconnect(c) =>
            LET r == RoomOf(c)
                remaining == SelectSeq(rooms[r].users, LAMBDA u : u.id # c)
                left == [ type |-> "user-left", userId |-> c, users |-> remaining ]
            IN  /\ \A d \in Conns \ {c} :
                     down'[d] = IF r \in sock[d].rooms
                                THEN Append(down[d], left) ELSE down[d]
                /\ IF remaining = << >>
                   THEN r \notin DOMAIN rooms'
                   ELSE r \in DOMAIN rooms' /\ rooms'[r].users = remaining ]_vars

\* a user-left message is on its way to a member of a room that stayed
C18_Witness ==
    \E d \in Conns :
        /\ down[d] # << >>
        /\ Head(down[d]).type = "user-left"
        /\ RoomOf(d) \in DOMAIN rooms
        /\ UserIds(Head(down[d]).users) = {d}
        /\ sock[Head(down[d]).userId].status = "closed"

\* C19: a join hands init-state to the joining connection and to no other,
\* and user-joined to every other connection of the room and not to the
\* joiner; connections outside the room get nothing.
C19_JoinMessages ==
    [][ \A c \in Conns :
          SockJoin(c) =>
            LET r == sock'[c].currentRoom
                others == IF r \in DOMAIN rooms THEN Members(r) \ {c} ELSE {}
            IN  /\ Gets(c, "init-state")
                /\ Last(down'[c]).userId = c
                /\ \A d \in others : Gets(d, "user-joined") /\ Last(down'[d]).user.id = c
                /\ \A d \in Conns \ (others \cup {c}) : down'[d] = down[d] ]_vars

\* the joiner has its init-state and the member that was there user-joined
C19_Witness ==
    \E c, d \in Conns :
        /\ c # d
        /\ Len(down[c]) = 1
        /\ Head(down[c]).type = "init-state"
        /\ Len(down[d]) = 1
        /\ Head(down[d]).type = "user-joined"
        /\ Head(down[d]).user.id = c

\* C20: an undo on an empty log finds nothing to return, leaves the room
\* (log, users) and every other room as they are, and sends no message to
\* any connection.
C20_EmptyUndoNoOp ==
    /\ [](\A r \in DOMAIN rooms :
            Log(r) = << >> =>
                /\ undoResult(rooms[r]) = << >>
                /\ undoLastOperation(rooms[r]) = rooms[r])
    /\ [][ \A c \in Conns :
             (SockUndo(c) /\ RoomOf(c) # NoRoom /\ Log(RoomOf(c)) = << >>) =>
                /\ rooms' = rooms
                /\ down' = down
                /\ sock' = sock ]_vars

\* a joined socket may send undo while the log of its room is empty
C20_Witness ==
    \E c \in Conns :
        /\ sock[c].status = "open"
        /\ Log(RoomOf(c)) = << >>
        /\ Len(rooms[RoomOf(c)].users) = 2
        /\ ENABLED SockUndo(c)

\* the stroke as drawn, and the path of it that the mouseup of this step
\* puts into the log
Drawn(c) == client[c].currentPoints
Sent(c) == Last(rooms'[RoomOf(c)].operations).points

Spacing2(p, q) == (q.x - p.x) * (q.x - p.x) + (q.y - p.y) * (q.y - p.y)

Collinear(pts) ==
    \A i, j, k \in 1..Len(pts) :
        (pts[j].x - pts[i].x) * (pts[k].y - pts[i].y)
            = (pts[k].x - pts[i].x) * (pts[j].y - pts[i].y)

\* C28: a stroke of three or more points on one straight line, consecutive
\* points less than the tolerance 2 apart, is simplified to its first and
\* its last point.
C28_StraightLine ==
    [][ \A c \in Conns :
          ( /\ Applies(c)
            /\ Len(Drawn(c)) >= 3
            /\ Collinear(Drawn(c))
            /\ \A i \in 1..(Len(Drawn(c)) - 1) :
                  Spacing2(Drawn(c)[i], Drawn(c)[i + 1]) < 2 * 2 ) =>
            Sent(c) = << Drawn(c)[1], Drawn(c)[Len(Drawn(c))] >> ]_vars

\* C29: a stroke of one or two points is sent as drawn; the path sent for a
\* longer one begins with the first point drawn and ends with the last.
C29_EndsKept ==
    [][ \A c \in Conns :
          Applies(c) =>
            IF Len(Drawn(c)) <= 2 THEN Sent(c) = Drawn(c)
            ELSE /\ Len(Sent(c)) >= 2
                 /\ Sent(c)[1] = Drawn(c)[1]
                 /\ Sent(c)[Len(Sent(c))] = Drawn(c)[Len(Drawn(c))] ]_vars

\* a stroke of four points from which nothing was dropped
C29_Witness ==
    \E r \in DOMAIN rooms :
        /\ Log(r) # << >>
        /\ Len(Log(r)[1].points) = 4
        /\ Log(r)[1].points[1] # Log(r)[1].points[4]

\* which points of a stroke the single pass keeps: the first, the last, and
\* an interior point when it is more than 2 from the point kept last before
\* it or more than 2 from the next point drawn
Kept(pts) ==
    LET n == Len(pts)
        K[i \in 1..n] ==
            IF i = 1 \/ i = n THEN TRUE
            ELSE LET j == CHOOSE j \in 1..(i - 1) :
                              K[j] /\ \A m \in (j + 1)..(i - 1) : ~K[m]
                 IN  \/ Spacing2(pts[j], pts[i]) > 2 * 2
                     \/ Spacing2(pts[i], pts[i + 1]) > 2 * 2
    IN  K

Rule(pts) ==
    LET K == Kept(pts)
        at == SelectSeq([ i \in 1..Len(pts) |-> i ], LAMBDA i : K[i])
    IN  [ j \in 1..Len(at) |-> pts[at[j]] ]

RedoBufferIds(r) ==
    UNION { Ids(Drain(client[d], down[d]).redoStack) : d \in InRoom(sock, r) }

\* C21: a redo request for an operation that no redo stack of the room
\* holds any more leaves the log as it is.
C21_UnknownRedoIgnored ==
    [][ \A c \in Conns :
          ( /\ ClientRedo(c)
            /\ Last(client[c].redoStack).id \notin RedoBufferIds(RoomOf(c)) ) =>
            rooms'[RoomOf(c)].operations = Log(RoomOf(c)) ]_vars

\* C22: a cursor position for a user id that is not in the users of a room
\* changes nothing of the room; the cursor position a joined socket sends
\* changes the cursor of its user and nothing else: no other user, no log,
\* no other room.
C22_CursorOnlyOfKnownUser ==
    /\ [](\A r \in DOMAIN rooms :
            \A u \in (Conns \cup {NoId}) \ UserIds(rooms[r].users) :
                \A p \in Cursors :
                    updateUserCursor(rooms[r], u, p.x, p.y) = rooms[r])
    /\ [][ \A c \in Conns :
             (SockCursor(c) /\ RoomOf(c) # NoRoom) =>
               LET r == RoomOf(c)
               IN  /\ DOMAIN rooms' = DOMAIN rooms
                   /\ \A q \in DOMAIN rooms \ {r} : rooms'[q] = rooms[q]
                   /\ rooms'[r].operations = rooms[r].operations
                   /\ rooms'[r].colorIdx = rooms[r].colorIdx
                   /\ Len(rooms'[r].users) = Len(rooms[r].users)
                   /\ \E p \in Cursors :
                        \A i \in 1..Len(rooms[r].users) :
                            rooms'[r].users[i] =
                                IF rooms[r].users[i].id = c
                                THEN [ rooms[r].users[i] EXCEPT !.cursor = << p.x, p.y >> ]
                                ELSE rooms[r].users[i] ]_vars

\* a room whose one user has a cursor, and an open socket that is not a user
\* of that room
C22_Witness ==
    \E r \in DOMAIN rooms :
        /\ Len(rooms[r].users) = 1
        /\ rooms[r].users[1].cursor # << >>
        /\ \E d \in Conns : sock[d].status = "open" /\ d \notin UserIds(rooms[r].users)

\* C23: a payload that is no operation is turned away: no room changes, no
\* log gets it, and the socket that sent it is handed an error message.
C23_MalformedRejected ==
    [][ \A c \in Conns :
          ( /\ sock[c].status = "open"
            /\ DrawOperation(c, malformedOperation)
            /\ UNCHANGED << client, clock >> ) =>
            /\ rooms' = rooms
            /\ Gets(c, "error") ]_vars

\* the operation that was applied under the id of e: every copy of it that
\* exists, in a log, a history, a redo stack or a message
Copies ==
    UNION { Range(rooms[r].operations) : r \in DOMAIN rooms }
    \cup UNION { Range(client[c].operations) \cup Range(client[c].redoStack) : c \in Conns }
    \cup UNION { UNION { CASE down[c][i].type = "init-state" -> Range(down[c][i].operations)
                           [] down[c][i].type = "draw-operation" -> { down[c][i].op }
                           [] down[c][i].type = "redo" -> { down[c][i].op }
                           [] down[c][i].type = "undo" -> { down[c][i].operation }
                           [] OTHER -> {} : i \in 1..Len(down[c]) } : c \in Conns }

\* C24: the copies of an operation agree field for field, wherever they are,
\* so what a redo puts back is the operation as it was applied; an apply
\* brings a new id; and a step changes a log only by taking its last entry
\* away, by emptying it, or by appending an operation: one just drawn, or
\* one from the redo stack of the socket that asks.
C24_OperationsImmutable ==
    /\ [](\A a, b \in Copies : a.id = b.id => a = b)
    /\ [][ \A r \in DOMAIN rooms \cap DOMAIN rooms' :
             LET old == rooms[r].operations
                 new == rooms'[r].operations
             IN  \/ new = old
                 \/ new = << >>
                 \/ new = SubSeq(old, 1, Len(old) - 1)
                 \/ /\ Len(new) = Len(old) + 1
                    /\ SubSeq(new, 1, Len(old)) = old
                    /\ \/ new[Len(new)] \in Copies
                       \/ new[Len(new)].id \notin { a.id : a \in Copies } ]_vars

\* a redo has put an operation back into a log, and a participant holds it
\* in its history as well
C24_Witness ==
    \E c \in Conns :
        /\ down[c] # << >>
        /\ Head(down[c]).type = "redo"
        /\ Head(down[c]).op \in Range(Log(RoomOf(c)))
        /\ client[c].redoStack # << >>
        /\ Head(down[c]).op \in Range(client[c].redoStack)

\* C25: the join that finds the color counter of its room at k (0 for a room
\* just created) gives the joiner color k modulo 8 of the palette of 8 and
\* leaves the counter at k + 1; no other request changes the counter of a
\* room.
C25_PaletteRoundRobin ==
    [][ /\ \A c \in Conns :
             PaletteJoin(c) =>
               LET r == sock'[c].currentRoom
                   k == IF r \in DOMAIN rooms THEN rooms[r].colorIdx ELSE 0
               IN  /\ Len(userColors) = 8
                   /\ rooms'[r].colorIdx = k + 1
                   /\ \E i \in 1..Len(rooms'[r].users) :
                        /\ rooms'[r].users[i].id = c
                        /\ rooms'[r].users[i].color = userColors[(k % 8) + 1]
                   /\ Last(down'[c]).user.color = userColors[(k % 8) + 1]
        /\ \A r \in DOMAIN rooms \cap DOMAIN rooms' :
             /\ rooms'[r].colorIdx >= rooms[r].colorIdx
             /\ (\A c \in Conns : ~PaletteJoin(c)) =>
                    rooms'[r].colorIdx = rooms[r].colorIdx ]_vars

\* the ninth join of a room got the first color of the palette again
C25_Witness ==
    /\ "r1" \in DOMAIN rooms
    /\ rooms["r1"].colorIdx = 9
    /\ \E c \in Conns :
         /\ down[c] # << >>
         /\ Head(down[c]).type = "init-state"
         /\ Head(down[c]).user.color = userColors[1]

\* C26: while a connection is a user of a room, the color recorded for it
\* there stays the one it got.
C26_ColorStable ==
    [][ \A r \in DOMAIN rooms \cap DOMAIN rooms' :
          \A i \in 1..Len(rooms[r].users) :
              \A j \in 1..Len(rooms'[r].users) :
                  rooms[r].users[i].id = rooms'[r].users[j].id =>
                      rooms[r].users[i].color = rooms'[r].users[j].color ]_vars

\* C27: a request handled for one room leaves every other room of the
\* registry as it is (log, users, counter), registers or releases no other
\* room, and hands nothing to a connection that is not in that room.
C27_RoomsIsolated ==
    [][ \A c \in Conns :
          ( \/ SockJoin(c) \/ SockDraw(c) \/ SockCursor(c) \/ SockUndo(c)
            \/ SockRedo(c) \/ SockClear(c) \/ SockClose(c) ) =>
            LET a == IF SockJoin(c) THEN sock'[c].currentRoom ELSE RoomOf(c)
            IN  /\ \A q \in DOMAIN rooms \ {a} :
                     q \in DOMAIN rooms' /\ rooms'[q] = rooms[q]
                /\ DOMAIN rooms' \subseteq DOMAIN rooms \cup {a}
                /\ \A d \in Conns :
                     (a \notin sock[d].rooms /\ a \notin sock'[d].rooms) =>
                         down'[d] = down[d] ]_vars

\* two rooms with one connection each: an undo is on its way in one, the
\* other keeps its log and its connection has nothing coming
C27_Witness ==
    \E c, d \in Conns :
        /\ sock[c].status = "open" /\ sock[d].status = "open"
        /\ RoomOf(c) # RoomOf(d)
        /\ sock[d].rooms = { RoomOf(d) }
        /\ sock[c].rooms = { RoomOf(c) }
        /\ down[c] # << >>
        /\ Head(down[c]).type = "undo"
        /\ down[d] = << >>
        /\ Log(RoomOf(d)) # << >>

\* C31: an undo that reaches a client in the middle of a stroke discards
\* the stroke: the mouseup that follows yields no operation, so the stroke
\* enters no history and is not sent.
C31_StrokeLostOnUndo ==
    [][ \A c \in Conns :
          (RecvUndo(c) /\ stopYields(client[c])) => ~stopYields(client'[c]) ]_vars

\* C32: the undo message names the operation the server took from its log;
\* once a client has processed it, the history of the client holds no
\* operation with that id, keeps its other entries in order, and the
\* operation is on top of the redo stack of the client.
C32_ClientUndo ==
    [][ \A c \in Conns :
          /\ RecvUndo(c) =>
               LET m == Head(down[c])
               IN  /\ m.operationId \notin Ids(client'[c].operations)
                   /\ client'[c].operations =
                        SelectSeq(client[c].operations, LAMBDA o : o.id # m.operationId)
                   /\ client'[c].redoStack # << >>
                   /\ client'[c].redoStack[Len(client'[c].redoStack)] = m.operation
          /\ (ClientUndo(c) /\ Log(RoomOf(c)) # << >>) =>
               \A d \in InRoom(sock, RoomOf(c)) :
                   LET m == down'[d][Len(down'[d])]
                       removed == Log(RoomOf(c))[Len(Log(RoomOf(c)))]
                   IN  /\ m.type = "undo"
                       /\ m.operationId = removed.id
                       /\ m.operation = removed
                       /\ Len(rooms'[RoomOf(c)].operations) = Len(Log(RoomOf(c))) - 1
      ]_vars

\* a client holds an operation in its history and, undone and on top of its
\* redo stack, a newer one
C32_Witness ==
    \E c \in Conns :
        /\ client[c].redoStack # << >>
        /\ client[c].operations # << >>
        /\ Last(client[c].redoStack).id \notin Ids(client[c].operations)
        /\ Last(client[c].redoStack).timestamp > client[c].operations[1].timestamp

\* C33: a redo is requested only by a client whose redo stack is not empty,
\* and with the top of that stack; the server appends that operation at the
\* tail of the log and sends it to the room; a client that processes the
\* redo appends it to its history and takes the entries with its id, and no
\* others, off its redo stack.
C33_ClientRedo ==
    [][ /\ \A c \in Conns :
             /\ ClientRedo(c) =>
                  /\ client[c].redoStack # << >>
                  /\ LET top == client[c].redoStack[Len(client[c].redoStack)]
                     IN  /\ rooms'[RoomOf(c)].operations = Append(Log(RoomOf(c)), top)
                         /\ \A d \in InRoom(sock, RoomOf(c)) :
                              down'[d] = Append(down[d], [ type |-> "redo", op |-> top ])
             /\ RecvRedo(c) =>
                  LET op == Head(down[c]).op
                  IN  /\ client'[c].operations = Append(client[c].operations, op)
                      /\ client'[c].redoStack =
                           SelectSeq(client[c].redoStack, LAMBDA o : o.id # op.id)
        /\ \A d \in Conns :
             ( /\ Len(down'[d]) = Len(down[d]) + 1
               /\ down'[d][Len(down'[d])].type = "redo" ) =>
                 \E c \in Conns :
                     /\ client[c].redoStack # << >>
                     /\ down'[d][Len(down'[d])].op = Last(client[c].redoStack) ]_vars

\* a redo is on its way to a client whose redo stack holds that operation
\* below another one
C33_Witness ==
    \E c \in Conns :
        /\ down[c] # << >>
        /\ Head(down[c]).type = "redo"
        /\ Len(client[c].redoStack) = 2
        /\ client[c].redoStack[1] = Head(down[c]).op
        /\ client[c].redoStack[2] # Head(down[c]).op

\* C34: a client asks for an undo only while its own history holds an
\* operation.
C34_NoUndoOnEmptyHistory ==
    [][ \A c \in Conns :
          ( /\ Len(down'[c]) = Len(down[c]) + 1
            /\ down'[c][Len(down'[c])].type = "undo" ) =>
              \E d \in Conns : ClientUndo(d) /\ client[d].operations # << >> ]_vars

\* a client with an empty canvas in a room whose log holds an operation
C34_Witness ==
    \E c \in Conns :
        /\ Active(c)
        /\ client[c].currentUser # NoUser
        /\ client[c].operations = << >>
        /\ RoomOf(c) \in DOMAIN rooms
        /\ Log(RoomOf(c)) # << >>

\* C35: a tab whose connection dropped and came back is in its room again:
\* the new socket has joined a room, and a stroke finished on it is in the
\* log of a room.
C35_RejoinOnReconnect ==
    [][ \A c \in Conns :
          /\ Reconnected(c) => sock'[c].currentRoom # NoRoom
          /\ Applies(c) =>
               \E r \in DOMAIN rooms' :
                   Last(client'[c].operations) \in Range(rooms'[r].operations) ]_vars

\* C36: a draw-operation, cursor-move, undo, redo or clear-canvas of a socket
\* that has joined no room changes no room, creates no room and puts no
\* message on its way to any socket.
C36_UnjoinedIgnored ==
    /\ [](NoRoom \notin DOMAIN rooms)
    /\ [][ \A c \in Conns :
             ( /\ sock[c].currentRoom = NoRoom
               /\ \/ SockDraw(c)
                  \/ SockCursor(c)
                  \/ SockUndo(c)
                  \/ SockRedo(c)
                  \/ SockClear(c) ) =>
                 rooms' = rooms /\ down' = down ]_vars

\* a socket that has joined no room can send requests while another socket
\* is in a room whose log holds an operation
C36_Witness ==
    \E c \in Conns, r \in DOMAIN rooms :
        /\ sock[c].currentRoom = NoRoom
        /\ ENABLED SockDraw(c)
        /\ ENABLED SockUndo(c)
        /\ Log(r) # << >>
        /\ \E d \in Conns \ {c} : r \in sock[d].rooms

\* C37: a stroke yields at most one operation.  The stopDrawing that follows
\* startDrawing appends one operation with at least one point to the history
\* and resets isDrawing and currentPoints; a stopDrawing while nothing is
\* being drawn appends nothing and sends nothing.
C37_OneOperationPerStroke ==
    [][ \A c \in Conns :
          /\ ( /\ StopDrawing(c)
               /\ client[c].currentUser # NoUser
               /\ client[c].isDrawing ) =>
                 /\ Len(client'[c].operations) = Len(client[c].operations) + 1
                 /\ Len(Last(client'[c].operations).points) >= 1
                 /\ ~client'[c].isDrawing
                 /\ client'[c].currentPoints = << >>
                 /\ ~stopYields(client'[c])
          /\ ( StopDrawing(c) /\ ~client[c].isDrawing ) =>
                 /\ client'[c].operations = client[c].operations
                 /\ rooms' = rooms
                 /\ down' = down ]_vars

\* a stroke was finished and the mouse may be released once more
C37_Witness ==
    \E c \in Conns :
        /\ client[c].operations # << >>
        /\ Last(client[c].operations).userId = c
        /\ ~client[c].isDrawing
        /\ client[c].currentPoints = << >>
        /\ ENABLED StopDrawing(c)

\* C38: the disconnect of the only user of a room discards the room with its
\* log, and a join to a room all of whose users have disconnected finds no
\* room: the joiner's init-state has no operations, the joiner alone as
\* users, and the first color of the palette.
C38_FreshAfterLastLeft ==
    [][ \A c \in Conns :
          /\ ( ClientDisconnect(c) /\ UserIds(rooms[RoomOf(c)].users) = {c} ) =>
                 RoomOf(c) \notin DOMAIN rooms'
          /\ ( /\ ClientJoinRoom(c)
               /\ \A d \in Conns \ {c} :
                     sock[d].currentRoom = sock'[c].currentRoom =>
                         sock[d].status = "closed" ) =>
                 LET init == down'[c][1]
                 IN  /\ sock'[c].currentRoom \notin DOMAIN rooms
                     /\ init.type = "init-state"
                     /\ init.operations = << >>
                     /\ UserIds(init.users) = {c}
                     /\ init.user.color = userColors[1]
                     /\ init.users[1].color = userColors[1] ]_vars

\* a user drew in a room and left it as its last user; another user then
\* joined the same room and its init-state, not yet read, is that of a new
\* room
C38_Witness ==
    \E c, d \in Conns, r \in DOMAIN rooms :
        /\ c # d
        /\ sock[d].status = "closed"
        /\ sock[d].currentRoom = r
        /\ sock[c].currentRoom = r
        /\ clock >= 1
        /\ client[c].currentUser = NoUser
        /\ down[c] # << >>
        /\ down[c][1].type = "init-state"
        /\ down[c][1].operations = << >>
        /\ UserIds(down[c][1].users) = {c}
        /\ down[c][1].user.color = userColors[1]

\* the points of pts at the positions in S, in the order of pts
Pick(pts, S) ==
    LET at == SelectSeq([ i \in 1..Len(pts) |-> i ], LAMBDA i : i \in S)
    IN  [ j \in 1..Len(at) |-> pts[at[j]] ]

\* C39: the path sent for a stroke is the stroke drawn with some positions
\* left out: no point is added, moved or reordered, and the path sent is
\* never longer than the stroke drawn.
C39_Subsequence ==
    [][ \A c \in Conns :
          Applies(c) =>
            /\ Len(Sent(c)) <= Len(Drawn(c))
            /\ \E S \in SUBSET (1..Len(Drawn(c))) : Sent(c) = Pick(Drawn(c), S) ]_vars

\* a path of three points was sent that returns to the point it began at
C39_Witness ==
    \E r \in DOMAIN rooms :
        /\ Log(r) # << >>
        /\ Len(Log(r)[1].points) = 3
        /\ Log(r)[1].points[1] = Log(r)[1].points[3]
        /\ Log(r)[1].points[2] # Log(r)[1].points[1]

====
